---- MODULE Spec2Model ----
(***************************************************************************)
(* delivery_optimizer.py: Geolocation, DeliveryOptimizer and the search    *)
(* find_best_route over the 24 orderings of four stops.                    *)
(*                                                                         *)
(* Numbers.  Coordinates are whole degrees.  Distances are whole           *)
(* kilometres and times whole minutes (the floats of the source, truncated *)
(* after each division).  The points used lie on the equator or at a pole, *)
(* where the haversine central angle is an exact number of degrees.        *)
(*                                                                         *)
(* Exceptions are values: a call yields either a result or a record        *)
(* [exc |-> type, msg |-> message].                                        *)
(***************************************************************************)
EXTENDS Integers, Sequences, FiniteSets

(***************************************************************************)
(* Bounds of the model: the two positive preparation times that are tried. *)
(***************************************************************************)
MaxPrep1 == 400
MaxPrep2 == 250

(***************************************************************************)
(* Program constants.                                                      *)
(***************************************************************************)
R == 6371
DefaultSpeed == 20
Inf == 2000000000

Raise(type, msg) == [exc |-> type, msg |-> msg]
IsException(x) == "exc" \in DOMAIN x
Value(v) == [value |-> v]

Abs(x) == IF x < 0 THEN -x ELSE x

(***************************************************************************)
(* Geolocation.__init__                                                    *)
(***************************************************************************)
GeolocationStrict(latitude, longitude) ==
    IF ~(-90 < latitude /\ latitude < 90)
    THEN Raise("ValueError", "Latitude must be between -90 and 90 degrees.")
    ELSE IF ~(-180 < longitude /\ longitude < 180)
    THEN Raise("ValueError", "Longitude must be between -180 and 180 degrees.")
    ELSE [latitude |-> latitude, longitude |-> longitude]

Geolocation(latitude, longitude) ==
    IF ~(-90 <= latitude /\ latitude <= 90)
    THEN Raise("ValueError", "Latitude must be between -90 and 90 degrees.")
    ELSE IF ~(-180 <= longitude /\ longitude <= 180)
    THEN Raise("ValueError", "Longitude must be between -180 and 180 degrees.")
    ELSE [latitude |-> latitude, longitude |-> longitude]

(***************************************************************************)
(* DeliveryOptimizer.__init__                                              *)
(***************************************************************************)
DeliveryOptimizerNegativeOnly(average_speed) ==
    IF average_speed < 0
    THEN Raise("ValueError", "Average speed must be a positive value.")
    ELSE [average_speed |-> average_speed]

DeliveryOptimizer(average_speed) ==
    IF average_speed <= 0
    THEN Raise("ValueError", "Average speed must be a positive value.")
    ELSE [average_speed |-> average_speed]

(***************************************************************************)
(* haversine_distance, in whole kilometres.  c is the central angle in     *)
(* degrees: with cos(lat1) * cos(lat2) = 0 (a pole) a = sin^2(dlat / 2)    *)
(* and c = |dlat|; with both points on the equator a = sin^2(dlon / 2)     *)
(* and c = |dlon| folded into [0, 180].  R * radians(c) is taken with      *)
(* pi / 180 = 0.01745.                                                     *)
(***************************************************************************)
haversine_distance(location1, location2) ==
    LET dlon == Abs(location2.longitude - location1.longitude)
        dlat == Abs(location2.latitude - location1.latitude)
        c == IF location1.latitude = 0 /\ location2.latitude = 0
             THEN (IF dlon <= 180 THEN dlon ELSE 360 - dlon)
             ELSE dlat
    IN  (R * c * 1745) \div 100000

(***************************************************************************)
(* calculate_travel_time, in whole minutes.  A zero speed is the           *)
(* ZeroDivisionError of the float division.                                *)
(***************************************************************************)
calculate_travel_time(self, location1, location2) ==
    LET distance == haversine_distance(location1, location2)
    IN  IF self.average_speed = 0
        THEN Raise("ZeroDivisionError", "float division by zero")
        ELSE Value((distance * 60) \div self.average_speed)

(***************************************************************************)
(* itertools.permutations: the orderings of the positions of the pool, in  *)
(* lexicographic order of the positions; elements are taken by position,   *)
(* never compared.  position_orders(<<1, .., n>>) lists the orderings of   *)
(* the positions and permutations(pool) reads the pool through them.       *)
(***************************************************************************)
RECURSIVE Flatten(_)
Flatten(ss) == IF ss = <<>> THEN <<>> ELSE Head(ss) \o Flatten(Tail(ss))

RemoveAt(s, i) == SubSeq(s, 1, i - 1) \o SubSeq(s, i + 1, Len(s))

RECURSIVE position_orders(_)
position_orders(positions) ==
    IF positions = <<>> THEN << <<>> >>
    ELSE Flatten([i \in 1..Len(positions) |->
            LET rest == position_orders(RemoveAt(positions, i))
            IN  [k \in 1..Len(rest) |-> <<positions[i]>> \o rest[k]]])

(* The pools of this program all have four elements. *)
Orders4 == position_orders(<<1, 2, 3, 4>>)

permutations(pool) ==
    [k \in 1..Len(Orders4) |-> [j \in 1..Len(pool) |-> pool[Orders4[k][j]]]]

(***************************************************************************)
(* generate_routes                                                         *)
(***************************************************************************)
generate_routes_swapped(r1_location, c1_location, r2_location, c2_location) ==
    LET locations == <<c1_location, r1_location, r2_location, c2_location>>
        routes == permutations(locations)
    IN  [k \in 1..Len(routes) |-> routes[k]]

generate_routes(r1_location, c1_location, r2_location, c2_location) ==
    LET locations == <<r1_location, c1_location, r2_location, c2_location>>
        routes == permutations(locations)
    IN  [k \in 1..Len(routes) |-> routes[k]]

(***************************************************************************)
(* calculate_route_time, lines 134-139: the waiting time added at index i  *)
(* of the route.  r1_location and r2_location are not parameters of the    *)
(* method: they are looked up in the module's globals g.                   *)
(***************************************************************************)
SameCoordinates(a, b) == a.latitude = b.latitude /\ a.longitude = b.longitude

waiting_time(g, i, location, pt1, pt2) ==
    IF i = 0 \/ i = 2
    THEN IF "r1_location" \notin DOMAIN g
         THEN Raise("NameError", "name 'r1_location' is not defined")
         ELSE IF SameCoordinates(location, g.r1_location)
         THEN Value(pt1)
         ELSE IF "r2_location" \notin DOMAIN g
         THEN Raise("NameError", "name 'r2_location' is not defined")
         ELSE IF SameCoordinates(location, g.r2_location)
         THEN Value(pt2)
         ELSE Value(0)
    ELSE Value(0)

(***************************************************************************)
(* calculate_route_time, lines 130-143: the loop, from index i on.         *)
(***************************************************************************)
RECURSIVE route_loop(_, _, _, _, _, _, _, _)
route_loop(self, g, route, i, total_time, current_location, pt1, pt2) ==
    IF i >= Len(route) THEN Value(total_time)
    ELSE LET location == route[i + 1]
             travel_time == calculate_travel_time(self, current_location, location)
         IN  IF IsException(travel_time) THEN travel_time
             ELSE LET wait == waiting_time(g, i, location, pt1, pt2)
                  IN  IF IsException(wait) THEN wait
                      ELSE route_loop(self, g, route, i + 1,
                                      total_time + travel_time.value + wait.value,
                                      location, pt1, pt2)

calculate_route_time_both_negative(self, g, route, aman_location, pt1, pt2) ==
    IF pt1 < 0 /\ pt2 < 0
    THEN Raise("ValueError", "Preparation times must be non-negative values.")
    ELSE route_loop(self, g, route, 0, 0, aman_location, pt1, pt2)

calculate_route_time(self, g, route, aman_location, pt1, pt2) ==
    IF pt1 < 0 \/ pt2 < 0
    THEN Raise("ValueError", "Preparation times must be non-negative values.")
    ELSE route_loop(self, g, route, 0, 0, aman_location, pt1, pt2)

(***************************************************************************)
(* find_best_route, lines 166-173: the loop, from candidate k on.  scores  *)
(* is the outcome of every attempt so far and log the error lines.  An     *)
(* exception that is not a ValueError leaves the loop and the method.      *)
(***************************************************************************)
ErrorCalculating ==
    "Error calculating route time: Preparation times must be non-negative values."

RECURSIVE search_loop(_, _, _, _, _, _, _, _, _, _, _)
search_loop(self, g, routes, k, best_route, min_time, scores, log, aman_location, pt1, pt2) ==
    IF k > Len(routes)
    THEN [raised |-> <<>>, best_route |-> best_route, min_time |-> min_time,
          scores |-> scores, log |-> log]
    ELSE LET route == routes[k]
             route_time == calculate_route_time(self, g, route, aman_location, pt1, pt2)
         IN  IF IsException(route_time)
             THEN IF route_time.exc = "ValueError"
                  THEN search_loop(self, g, routes, k + 1, best_route, min_time,
                                   Append(scores, route_time),
                                   Append(log, ErrorCalculating),
                                   aman_location, pt1, pt2)
                  ELSE [raised |-> <<route_time>>, best_route |-> best_route,
                        min_time |-> min_time,
                        scores |-> Append(scores, route_time), log |-> log]
             ELSE IF route_time.value < min_time
                  THEN search_loop(self, g, routes, k + 1, route, route_time.value,
                                   Append(scores, route_time), log,
                                   aman_location, pt1, pt2)
                  ELSE search_loop(self, g, routes, k + 1, best_route, min_time,
                                   Append(scores, route_time), log,
                                   aman_location, pt1, pt2)

(***************************************************************************)
(* find_best_route.  None is the empty tuple.  The result is the pair      *)
(* <<best_route, min_time>> or the exception raised.                       *)
(***************************************************************************)
find_best_route(self, g, aman_location, r1_location, c1_location, r2_location, c2_location, pt1, pt2) ==
    LET routes == generate_routes(r1_location, c1_location, r2_location, c2_location)
        end == search_loop(self, g, routes, 1, <<>>, Inf, <<>>, <<>>,
                           aman_location, pt1, pt2)
    IN  IF end.raised # <<>>
        THEN [result |-> end.raised[1], scores |-> end.scores, log |-> end.log]
        ELSE IF end.best_route = <<>>
        THEN [result |-> Raise("ValueError", "No valid route found."),
              scores |-> end.scores,
              log |-> Append(end.log, "Could not find a valid route.")]
        ELSE [result |-> Value(<<end.best_route, end.min_time>>),
              scores |-> end.scores, log |-> end.log]

(***************************************************************************)
(* Inputs.                                                                 *)
(***************************************************************************)
Latitudes == {-91, -90, 0, 90, 91}
Longitudes == {-181, -180, 0, 1, 3, 180, 181}
Speeds == {-1, 0, DefaultSpeed}
PrepTimes1 == {-1, 0, MaxPrep1}
PrepTimes2 == {-1, 0, MaxPrep2}

(* The Geolocation objects the calls are made with. *)
Locations ==
    {x \in {Geolocation(0, 0), Geolocation(0, 1), Geolocation(0, 3),
            Geolocation(90, 180)} : ~IsException(x)}

(***************************************************************************)
(* State.  optimizer: the DeliveryOptimizer object, or None (<<>>).        *)
(* module_globals: the module-level names calculate_route_time reads.      *)
(* last: the operation the caller has just made, with its outcome.         *)
(***************************************************************************)
VARIABLES optimizer, module_globals, last

vars == <<optimizer, module_globals, last>>

None == [op |-> "None"]

Init ==
    /\ optimizer = <<>>
    /\ module_globals = <<>>
    /\ last = None

NewGeolocation ==
    /\ last = None
    /\ \E latitude \in Latitudes, longitude \in Longitudes :
          last' = [op |-> "Geolocation", latitude |-> latitude,
                   longitude |-> longitude,
                   result |-> Geolocation(latitude, longitude)]
    /\ UNCHANGED <<optimizer, module_globals>>

NewDeliveryOptimizer ==
    /\ last = None
    /\ \E average_speed \in Speeds :
          LET result == DeliveryOptimizer(average_speed)
          IN  /\ optimizer' = IF IsException(result) THEN optimizer ELSE result
              /\ last' = [op |-> "DeliveryOptimizer", average_speed |-> average_speed,
                          result |-> result]
    /\ UNCHANGED module_globals

(* Lines 188-189 of the example block: the module-level assignments. *)
DefineGlobals ==
    /\ last = None
    /\ \E p \in Locations, q \in Locations :
          module_globals' = [r1_location |-> p, r2_location |-> q]
    /\ UNCHANGED <<optimizer, last>>

GenerateRoutes ==
    /\ last = None
    /\ \E r1 \in Locations, c1 \in Locations, r2 \in Locations, c2 \in Locations :
          last' = [op |-> "generate_routes", r1 |-> r1, c1 |-> c1, r2 |-> r2, c2 |-> c2,
                   result |-> generate_routes(r1, c1, r2, c2)]
    /\ UNCHANGED <<optimizer, module_globals>>

FindBestRoute ==
    /\ last = None
    /\ optimizer # <<>>
    /\ \E aman \in Locations, r1 \in Locations, c1 \in Locations,
          r2 \in Locations, c2 \in Locations,
          pt1 \in PrepTimes1, pt2 \in PrepTimes2 :
          \E out \in {find_best_route(optimizer, module_globals, aman, r1, c1, r2, c2,
                                      pt1, pt2)} :
              last' = [op |-> "find_best_route", self |-> optimizer,
                       aman |-> aman, r1 |-> r1, c1 |-> c1, r2 |-> r2, c2 |-> c2,
                       pt1 |-> pt1, pt2 |-> pt2,
                       result |-> out.result, scores |-> out.scores, log |-> out.log]
    /\ UNCHANGED <<optimizer, module_globals>>

(* The caller takes the outcome and goes on. *)
Continue ==
    /\ last # None
    /\ last' = None
    /\ UNCHANGED <<optimizer, module_globals>>

Next ==
    \/ NewGeolocation
    \/ NewDeliveryOptimizer
    \/ DefineGlobals
    \/ GenerateRoutes
    \/ FindBestRoute
    \/ Continue

Spec == Init /\ [][Next]_vars

(***************************************************************************)
(* Reading the last operation.                                             *)
(***************************************************************************)
IsCall == last.op = "find_best_route"
Returned == IsCall /\ ~IsException(last.result)
NonNegativePreps == last.pt1 >= 0 /\ last.pt2 >= 0

InvalidPreparationTime ==
    Raise("ValueError", "Preparation times must be non-negative values.")
NoValidRoute == Raise("ValueError", "No valid route found.")

(* The candidates of the last call, and the role (1 = restaurant 1,        *)
(* 2 = customer 1, 3 = restaurant 2, 4 = customer 2) at place j of         *)
(* candidate k.                                                            *)
Candidates == generate_routes(last.r1, last.c1, last.r2, last.c2)
Role(k, j) == Orders4[k][j]
RolePrep(role) == IF role = 1 THEN last.pt1 ELSE IF role = 3 THEN last.pt2 ELSE 0

Leg(a, b) == calculate_travel_time(last.self, a, b).value
LegSum(route) ==
    Leg(last.aman, route[1]) + Leg(route[1], route[2])
        + Leg(route[2], route[3]) + Leg(route[3], route[4])
Stops == {last.r1, last.c1, last.r2, last.c2}
Nearest == CHOOSE t \in {Leg(last.aman, x) : x \in Stops} :
               \A x \in Stops : t <= Leg(last.aman, x)

Count(seq, x) == Cardinality({j \in 1..Len(seq) : seq[j] = x})

(***************************************************************************)
(* C1: with non-negative preparation times find_best_route returns         *)
(* (route, time), time is the least of the 24 scores, and route is the     *)
(* first candidate, in generation order, with that score.                  *)
(***************************************************************************)
C1_ReturnsFirstMinimum ==
    (IsCall /\ NonNegativePreps) =>
        /\ ~IsException(last.result)
        /\ Len(last.scores) = 24
        /\ \A k \in 1..Len(last.scores) :
              /\ ~IsException(last.scores[k])
              /\ last.result.value[2] <= last.scores[k].value
        /\ \E k \in 1..Len(last.scores) :
              /\ last.scores[k].value = last.result.value[2]
              /\ \A j \in 1..(k - 1) : last.scores[j].value # last.result.value[2]
              /\ last.result.value[1] = Candidates[k]

(***************************************************************************)
(* C2: every score is the four legs plus pt1 plus pt2: the preparation     *)
(* time of a restaurant is added wherever the restaurant stands in the     *)
(* route.  Stated of the candidates that were scored.                      *)
(***************************************************************************)
C2_ScoreIsLegsPlusBothPreps ==
    (IsCall /\ NonNegativePreps) =>
        \A k \in 1..Len(last.scores) :
            ~IsException(last.scores[k]) =>
                last.scores[k].value = LegSum(Candidates[k]) + last.pt1 + last.pt2

(***************************************************************************)
(* C3: with a negative preparation time all 24 candidates are attempted,   *)
(* each attempt fails with the preparation-time error, and the call raises *)
(* "No valid route found." instead of returning a pair.                    *)
(***************************************************************************)
C3_NegativePrepRaisesNoValidRoute ==
    (IsCall /\ ~NonNegativePreps) =>
        /\ Len(last.scores) = 24
        /\ \A k \in 1..Len(last.scores) : last.scores[k] = InvalidPreparationTime
        /\ last.result = NoValidRoute

C3_Witness ==
    /\ IsCall /\ last.pt1 < 0 /\ last.pt2 >= 0
    /\ Len(last.scores) = 24
    /\ last.result = NoValidRoute

(***************************************************************************)
(* C4: a call ends either with a pair (route, time), route an ordering of  *)
(* the four stops and time its score, at least 0, or with the error        *)
(* "No valid route found."; no other error reaches the caller.             *)
(***************************************************************************)
C4_PairOrNoValidRoute ==
    IsCall =>
        \/ last.result = NoValidRoute
        \/ /\ ~IsException(last.result)
           /\ last.result.value[2] >= 0
           /\ \E k \in 1..Len(last.scores) :
                 /\ last.result.value[1] = Candidates[k]
                 /\ last.scores[k] = Value(last.result.value[2])

(***************************************************************************)
(* C5: the time returned is at least pt1 + pt2 plus the travel time from   *)
(* the start to the nearest stop, and more than that when the four stops   *)
(* are at pairwise distinct locations.                                     *)
(***************************************************************************)
C5_TimeCoversBothPreps ==
    (Returned /\ NonNegativePreps) =>
        /\ last.result.value[2] >= last.pt1 + last.pt2 + Nearest
        /\ Cardinality(Stops) = 4 =>
              last.result.value[2] > last.pt1 + last.pt2 + Nearest

(***************************************************************************)
(* C6: generate_routes returns 24 sequences of length 4, each holding      *)
(* every input stop as often as the inputs do; with pairwise distinct      *)
(* inputs no two sequences are equal; the first is the input order.        *)
(***************************************************************************)
C6_AllOrderings ==
    last.op = "generate_routes" =>
        LET inputs == <<last.r1, last.c1, last.r2, last.c2>>
            routes == last.result
        IN  /\ Len(routes) = 24
            /\ \A k \in 1..Len(routes) :
                  /\ Len(routes[k]) = 4
                  /\ \A x \in Locations : Count(routes[k], x) = Count(inputs, x)
            /\ Cardinality({last.r1, last.c1, last.r2, last.c2}) = 4 =>
                  \A k \in 1..Len(routes) : \A l \in 1..Len(routes) :
                      k # l => routes[k] # routes[l]
            /\ routes[1] = inputs

C6_Witness ==
    /\ last.op = "generate_routes"
    /\ Cardinality({last.r1, last.c1, last.r2, last.c2}) = 4
    /\ Len(last.result) = 24
    /\ last.result[24] = <<last.c2, last.r2, last.c1, last.r1>>

(***************************************************************************)
(* C7: preparation time goes by the role of a stop, not by its             *)
(* coordinates: when a customer stands at a restaurant's coordinates, or   *)
(* the two restaurants at the same coordinates, scoring adds nothing at a  *)
(* customer stop, pt1 at restaurant 1 and pt2 at restaurant 2.  Stated of  *)
(* calls made while r1_location and r2_location name the restaurants       *)
(* passed, as in the example block.                                        *)
(***************************************************************************)
StopsCoincide ==
    \/ SameCoordinates(last.c1, last.r1) \/ SameCoordinates(last.c1, last.r2)
    \/ SameCoordinates(last.c2, last.r1) \/ SameCoordinates(last.c2, last.r2)
    \/ SameCoordinates(last.r1, last.r2)

PassedRestaurantsAreGlobals ==
    module_globals = [r1_location |-> last.r1, r2_location |-> last.r2]

C7_PrepByRole ==
    (IsCall /\ NonNegativePreps /\ StopsCoincide /\ PassedRestaurantsAreGlobals) =>
        \A k \in 1..Len(Candidates) : \A j \in 1..4 :
            LET wait == waiting_time(module_globals, j - 1, Candidates[k][j],
                                     last.pt1, last.pt2)
            IN  ~IsException(wait) => wait.value = RolePrep(Role(k, j))

(***************************************************************************)
(* C8: Geolocation(latitude, longitude) succeeds exactly when              *)
(* -90 <= latitude <= 90 and -180 <= longitude <= 180, fails with the      *)
(* coordinate error otherwise, and every Geolocation object that exists    *)
(* is within both bounds.                                                  *)
(***************************************************************************)
InRange(latitude, longitude) ==
    /\ -90 <= latitude /\ latitude <= 90
    /\ -180 <= longitude /\ longitude <= 180

Objects ==
    Locations
        \cup {module_globals[n] : n \in DOMAIN module_globals}
        \cup (IF last.op = "Geolocation" /\ ~IsException(last.result)
              THEN {last.result} ELSE {})

C8_GeolocationBounds ==
    /\ last.op = "Geolocation" =>
          /\ ~IsException(last.result) <=> InRange(last.latitude, last.longitude)
          /\ IsException(last.result) => last.result.exc = "ValueError"
          /\ ~IsException(last.result) =>
                /\ last.result.latitude = last.latitude
                /\ last.result.longitude = last.longitude
    /\ \A x \in Objects : InRange(x.latitude, x.longitude)

C8_Witness ==
    /\ last.op = "Geolocation"
    /\ last.latitude = 90 /\ last.longitude = -180
    /\ ~IsException(last.result)

(***************************************************************************)
(* C9: DeliveryOptimizer(average_speed) with average_speed <= 0 fails with *)
(* the configuration error; an optimizer that exists has a positive        *)
(* average_speed; a search divides by a positive average_speed and leaves  *)
(* it as it was.                                                           *)
(***************************************************************************)
C9_PositiveSpeed ==
    /\ (last.op = "DeliveryOptimizer" /\ last.average_speed <= 0) =>
          last.result = Raise("ValueError", "Average speed must be a positive value.")
    /\ optimizer # <<>> => optimizer.average_speed > 0
    /\ IsCall =>
          /\ last.self.average_speed > 0
          /\ optimizer = last.self
          /\ \A k \in 1..Len(last.scores) :
                IsException(last.scores[k]) =>
                    last.scores[k].exc # "ZeroDivisionError"

C9_Witness ==
    /\ last.op = "DeliveryOptimizer"
    /\ last.average_speed = 0
    /\ IsException(last.result)
    /\ optimizer = [average_speed |-> DefaultSpeed]

(***************************************************************************)
(* C10: the outcome of find_best_route depends on its arguments alone:     *)
(* whatever the module-level names r1_location and r2_location hold, or    *)
(* whether they exist, the same arguments give the same outcome.           *)
(***************************************************************************)
GlobalEnvironments ==
    {<<>>} \cup {[r1_location |-> p, r2_location |-> q] : p \in Locations, q \in Locations}

C10_OutcomeFromArgumentsAlone ==
    IsCall =>
        \A g \in GlobalEnvironments :
            find_best_route(last.self, g, last.aman, last.r1, last.c1, last.r2,
                            last.c2, last.pt1, last.pt2).result = last.result

====
